---- MODULE Spec2Model ----
(***************************************************************************)
(* A model of the crawler (src/src/crawl.py) and of the graph normaliser   *)
(* and PageRank solver (src/src/pagerank.py).                              *)
(*                                                                         *)
(* URLs are integers: the integer order stands for the lexicographic order *)
(* of the URL strings, which is what list.sort() uses on them.             *)
(***************************************************************************)
EXTENDS Integers, Sequences, FiniteSets, TLC

\* ------------------------------------------------------------------ bounds
\* Number of in-domain pages of the modelled web.
NPages == 3
\* random_seed is drawn from 0..MaxRandomSeed.
MaxRandomSeed == 1
\* A crawl record holds urls out of 1..MaxRecordUrls.
MaxRecordUrls == 3
\* page_rank is run on n x n matrices, n in 1..MaxN, whose entries are
\* multiples of 1/Grain, with max_iters in 0..MaxItersBound.
MaxN == 2
Grain == 2
MaxItersBound == 3

\* --------------------------------------------------------------- variables
VARIABLES
    \* WebCrawler fields (crawl.py:25-32)
    seed_url, max_pages, max_depth, random_seed, visited, links, rng,
    \* locals of WebCrawler.crawl (crawl.py:108) and its position
    queue, pc,
    \* what crawl() prints: the "Crawling (k/max): url" lines and the
    \* "Error crawling url" lines, and the depth each url was dequeued with
    order, failed, depthOf,
    \* the environment: what a fetch of a url yields, fixed once fetched
    web,
    \* which of the two crawler instances is running, and the first's result
    run, first,
    \* build_adjacency_matrix: the loaded page records, the matrix under
    \* construction, the position of "for page in pages", and where it stands
    pages, A, page_i, mpc,
    \* page_rank: its arguments, its locals, its return value and why the
    \* loop ended; call and prev hold an earlier call's outcome
    rA, eps, max_iters, R, R_new, iter, rpc, ret, stop, call, prev

crawlVars == <<seed_url, max_pages, max_depth, random_seed, visited, links,
               rng, queue, pc, order, failed, depthOf, web, run,
               first>>

matrixVars == <<pages, A, page_i, mpc>>

rankVars == <<rA, eps, max_iters, R, R_new, iter, rpc, ret, stop, call, prev>>

vars == <<crawlVars, matrixVars, rankVars>>

\* ------------------------------------------------------------------- URLs
Pages == 1..NPages
OffSiteUrl == NPages + 1
FtpUrl == NPages + 2
AllUrls == 1..(NPages + 2)

\* urlparse(url).netloc and urlparse(url).scheme
Netloc(url) == IF url = OffSiteUrl THEN "other.org" ELSE "en.site.org"
Scheme(url) == IF url = FtpUrl THEN "ftp" ELSE "https"

is_valid_url(url, base_domain) ==
    Netloc(url) = base_domain /\ Scheme(url) \in {"http", "https"}

\* ---------------------------------------------------------------- helpers
\* The iteration orders a set may have.
Orderings(S) ==
    {f \in [1..Cardinality(S) -> S] : \A x \in S : \E i \in DOMAIN f : f[i] = x}

Range(s) == {s[i] : i \in DOMAIN s}

\* list.sort(); the first is the list left as it was iterated
SortLinksNone(s) == s
SortLinks(s) == SortSeq(s, LAMBDA a, b : a < b)

\* random.Random: the generator is a deterministic function of its state.
RngNext(s) == (5 * s + 3) % 16
SeedRng(seed) == RngNext(seed)

Swap(x, i, j) == [x EXCEPT ![i] = x[j], ![j] = x[i]]

\* random.Random.shuffle: for i in reversed(range(1, len(x))):
\*     j = randbelow(i + 1); x[i], x[j] = x[j], x[i]      (0-based i, j)
RECURSIVE ShuffleFrom(_, _, _)
ShuffleFrom(x, i, s) ==
    IF i < 1 THEN [list |-> x, rng |-> s]
    ELSE LET s2 == RngNext(s)
             j == (s2 \div 2) % (i + 1)
         IN ShuffleFrom(Swap(x, i + 1, j + 1), i - 1, s2)

Shuffle(x, s) == ShuffleFrom(x, Len(x) - 1, s)

\* What the site serves for a url: the fetch fails, or the page's link set.
\* A page links to any set of in-domain pages, with or without the two
\* out-of-scope urls beside them.
Contents ==
    {[fails |-> TRUE, links |-> {}]}
    \cup {[fails |-> FALSE, links |-> S \cup F] :
             S \in SUBSET Pages, F \in {{}, {OffSiteUrl, FtpUrl}}}

\* get_links: the try body yields the page's link set, the except clause the
\* empty set; raised says whether an exception leaves get_links. The first
\* is get_links without its except clause.
GetLinksNoCatch(content) ==
    IF content.fails THEN [raised |-> TRUE, links |-> {}]
    ELSE [raised |-> FALSE, links |-> content.links]
get_links(content) ==
    IF content.fails THEN [raised |-> FALSE, links |-> {}]
    ELSE [raised |-> FALSE, links |-> content.links]

\* ------------------------------------------------- exact rational numbers
\* A number is <<numerator, denominator>> in lowest terms, denominator > 0.
RECURSIVE Gcd(_, _)
Gcd(a, b) == IF b = 0 THEN a ELSE Gcd(b, a % b)

Abs(x) == IF x < 0 THEN -x ELSE x

Rat(n, d) ==
    LET g == Gcd(Abs(n), d) IN IF n = 0 THEN <<0, 1>> ELSE <<n \div g, d \div g>>

Lcm(a, b) == (a \div Gcd(a, b)) * b

RAdd(x, y) ==
    LET l == Lcm(x[2], y[2])
    IN Rat(x[1] * (l \div x[2]) + y[1] * (l \div y[2]), l)
RSub(x, y) == RAdd(x, <<-y[1], y[2]>>)
RMul(x, y) ==
    LET g1 == Gcd(Abs(x[1]), y[2])
        g2 == Gcd(Abs(y[1]), x[2])
    IN IF x[1] = 0 \/ y[1] = 0 THEN <<0, 1>>
       ELSE <<(x[1] \div g1) * (y[1] \div g2), (x[2] \div g2) * (y[2] \div g1)>>
RAbs(x) == <<Abs(x[1]), x[2]>>
RLess(x, y) ==
    LET l == Lcm(x[2], y[2])
    IN x[1] * (l \div x[2]) < y[1] * (l \div y[2])

RECURSIVE RSum(_, _)
\* f[1] + ... + f[n]
RSum(f, n) == IF n = 0 THEN <<0, 1>> ELSE RAdd(RSum(f, n - 1), f[n])

\* ------------------------------------------------------------ the crawler
LoopCond == queue # <<>> /\ Cardinality(visited) < max_pages

\* if url in self.visited or depth > self.max_depth: continue
\* (the first two each drop one of the tests)
ShouldSkipNoDepth(url, depth) == url \in visited
ShouldSkipNoVisited(url, depth) == depth > max_depth
ShouldSkip(url, depth) == url \in visited \/ depth > max_depth

\* queue.pop(0); the first reads the head and leaves it queued
DequeuePeek(q) == q
Dequeue(q) == Tail(q)

\* self.links[url].update(valid_links) on a defaultdict(set)
LinksUpdate(l, url, new) ==
    [u \in DOMAIN l \cup {url} |->
        IF u = url
        THEN (IF url \in DOMAIN l THEN l[url] ELSE {}) \cup new
        ELSE l[u]]

\* for link in valid_links: if link not in self.visited: queue.append(...)
Enqueue(q, valid_links, vis, depth) ==
    q \o [i \in 1..Len(SelectSeq(valid_links, LAMBDA l : l \notin vis)) |->
            <<SelectSeq(valid_links, LAMBDA l : l \notin vis)[i], depth + 1>>]

CrawlInit ==
    /\ seed_url \in Pages
    /\ max_pages \in 0..(NPages + 1)
    /\ max_depth \in 0..(NPages - 1)
    /\ random_seed \in 0..MaxRandomSeed
    /\ visited = {}
    /\ links = <<>>
    /\ rng = SeedRng(random_seed)
    /\ queue = <<>>
    /\ pc = "constructed"
    /\ order = <<>>
    /\ failed = {}
    /\ depthOf = <<>>
    /\ web = <<>>
    /\ run = 1
    /\ first = [order |-> <<>>, visited |-> {}, links |-> <<>>]

\* crawl(), up to the loop (crawl.py:102-110)
CrawlBegin ==
    /\ pc = "constructed"
    /\ queue' = <<<<seed_url, 0>>>>
    /\ pc' = "loop"
    /\ UNCHANGED <<seed_url, max_pages, max_depth, random_seed, visited, links,
                   rng, order, failed, depthOf, web, run, first>>
    /\ UNCHANGED <<matrixVars, rankVars>>

\* one iteration that ends at "continue" (crawl.py:113-116)
LoopSkip ==
    /\ pc = "loop"
    /\ LoopCond
    /\ ShouldSkip(queue[1][1], queue[1][2])
    /\ queue' = Dequeue(queue)
    /\ UNCHANGED <<seed_url, max_pages, max_depth, random_seed, visited, links,
                   rng, pc, order, failed, depthOf, web, run, first>>
    /\ UNCHANGED <<matrixVars, rankVars>>

\* one iteration that visits a page (crawl.py:113-145)
LoopVisit ==
    /\ pc = "loop"
    /\ LoopCond
    /\ LET url == queue[1][1]
           depth == queue[1][2]
           base_domain == Netloc(seed_url)
       IN /\ ~ShouldSkip(url, depth)
          /\ \E content \in (IF url \in DOMAIN web THEN {web[url]} ELSE Contents) :
               LET got == get_links(content)
                   vis == visited \cup {url}
                   valid == {l \in got.links : is_valid_url(l, base_domain)}
               IN
               \* the list comprehension walks the set in its iteration order
               \E valid_links \in Orderings(valid) :
               LET sh == Shuffle(SortLinks(valid_links), rng)
               IN /\ visited' = vis
                  /\ order' = Append(order, url)
                  /\ depthOf' = [u \in DOMAIN depthOf \cup {url} |->
                                   IF u = url THEN depth ELSE depthOf[u]]
                  /\ web' = [u \in DOMAIN web \cup {url} |->
                                   IF u = url THEN content ELSE web[u]]
                  /\ failed' = IF content.fails THEN failed \cup {url} ELSE failed
                  /\ IF got.raised
                     THEN /\ pc' = "crashed"
                          /\ queue' = Dequeue(queue)
                          /\ UNCHANGED <<links, rng>>
                     ELSE /\ pc' = "loop"
                          /\ rng' = sh.rng
                          /\ links' = LinksUpdate(links, url, Range(sh.list))
                          /\ queue' = Enqueue(Dequeue(queue), sh.list, vis, depth)
    /\ UNCHANGED <<seed_url, max_pages, max_depth, random_seed, run, first>>
    /\ UNCHANGED <<matrixVars, rankVars>>

\* the loop condition is false (crawl.py:112, 147-149)
LoopExit ==
    /\ pc = "loop"
    /\ ~LoopCond
    /\ pc' = "done"
    /\ UNCHANGED <<seed_url, max_pages, max_depth, random_seed, visited, links,
                   rng, queue, order, failed, depthOf, web, run, first>>
    /\ UNCHANGED <<matrixVars, rankVars>>

\* a second WebCrawler built with the same arguments (crawl.py:25-32)
ConstructSecond ==
    /\ pc = "done"
    /\ run = 1
    /\ run' = 2
    /\ first' = [order |-> order, visited |-> visited, links |-> links]
    /\ visited' = {}
    /\ links' = <<>>
    /\ rng' = SeedRng(random_seed)
    /\ queue' = <<>>
    /\ pc' = "constructed"
    /\ order' = <<>>
    /\ failed' = {}
    /\ depthOf' = <<>>
    /\ UNCHANGED <<seed_url, max_pages, max_depth, random_seed, web>>
    /\ UNCHANGED <<matrixVars, rankVars>>

\* ------------------------------------------------ build_adjacency_matrix
RecordUrls == 1..MaxRecordUrls

\* sorted(S)
Sorted(S) ==
    CHOOSE f \in [1..Cardinality(S) -> S] :
        \A i, j \in 1..Cardinality(S) : i < j => f[i] < f[j]

\* The "pages" list save_results_json writes for a visited set P and a links
\* map out (crawl.py:177-184).
PageRecords(P, out) ==
    [i \in 1..Cardinality(P) |->
        [url |-> Sorted(P)[i], outgoing_links |-> Sorted(out[Sorted(P)[i]])]]

n == Len(pages)

visited_urls == {pages[i].url : i \in 1..n}

\* url_to_index = {page['url']: idx for idx, page in enumerate(pages)}
url_to_index(url) ==
    CHOOSE i \in 1..n :
        pages[i].url = url /\ \A j \in (i + 1)..n : pages[j].url # url

\* np.zeros((n, n))
Zeros(k) == [t \in 1..k |-> [s \in 1..k |-> <<0, 1>>]]

\* [link for link in page['outgoing_links']
\*       if link in visited_urls and link != source_url]
\* (the first keeps self-links)
QualifyingLinksKeepSelf(page) ==
    SelectSeq(page.outgoing_links, LAMBDA link : link \in visited_urls)
QualifyingLinks(page) ==
    SelectSeq(page.outgoing_links,
              LAMBDA link : link \in visited_urls /\ link # page.url)

\* for target_url in outgoing_links:
\*     A[target_idx][source_idx] = 1.0 / out_degree
EdgeColumn(M, source_idx, outgoing_links) ==
    [t \in 1..n |-> [s \in 1..n |->
        IF s = source_idx
           /\ \E k \in DOMAIN outgoing_links : url_to_index(outgoing_links[k]) = t
        THEN Rat(1, Len(outgoing_links))
        ELSE M[t][s]]]

\* A[:, source_idx] = 1.0 / n; the first leaves a dangling column at zero
DanglingColumnNone(M, source_idx) == M
DanglingColumn(M, source_idx) ==
    [t \in 1..n |-> [s \in 1..n |->
        IF s = source_idx THEN Rat(1, n) ELSE M[t][s]]]

MatrixIdle ==
    /\ pages = <<>>
    /\ A = <<>>
    /\ page_i = 0
    /\ mpc = "idle"

\* The record is loaded and the matrix zeroed (pagerank.py:58-70).
MatrixInit ==
    /\ \E P \in (SUBSET RecordUrls) \ {{}} :
       \E out \in [P -> SUBSET RecordUrls] :
          pages = PageRecords(P, out)
    /\ A = Zeros(Len(pages))
    /\ page_i = 1
    /\ mpc = "build"

\* one iteration of "for page in pages" (pagerank.py:73-90)
BuildPage ==
    /\ mpc = "build"
    /\ page_i <= n
    /\ LET page == pages[page_i]
           source_idx == url_to_index(page.url)
           outgoing_links == QualifyingLinks(page)
           out_degree == Len(outgoing_links)
       IN A' = IF out_degree > 0
               THEN EdgeColumn(A, source_idx, outgoing_links)
               ELSE DanglingColumn(A, source_idx)
    /\ page_i' = page_i + 1
    /\ UNCHANGED <<pages, mpc>>
    /\ UNCHANGED <<crawlVars, rankVars>>

\* return A, url_to_index, index_to_url (pagerank.py:92)
BuildReturn ==
    /\ mpc = "build"
    /\ page_i > n
    /\ mpc' = "returned"
    /\ UNCHANGED <<pages, A, page_i>>
    /\ UNCHANGED <<crawlVars, rankVars>>

\* -------------------------------------------------------------- page_rank
DAMPING_FACTOR == <<17, 20>>

Epsilons == {<<0, 1>>, <<1, 100>>, <<1, 4>>, <<1, 1>>}

RECURSIVE IntSum(_, _)
IntSum(f, k) == IF k = 0 THEN 0 ELSE IntSum(f, k - 1) + f[k]

\* The k x k column-stochastic matrices with entries in {0, 1/Grain, .., 1}.
StochasticColumns(k) == {c \in [1..k -> 0..Grain] : IntSum(c, k) = Grain}
StochasticMatrices(k) ==
    {[i \in 1..k |-> [j \in 1..k |-> Rat(cols[j][i], Grain)]] :
        cols \in [1..k -> StochasticColumns(k)]}

rn == Len(rA)

\* E = np.array([[1/n] for _ in range(n)])
Uniform(k) == [i \in 1..k |-> Rat(1, k)]

\* A @ R
MatVec(M, v) ==
    [i \in 1..Len(M) |-> RSum([j \in 1..Len(M) |-> RMul(M[i][j], v[j])], Len(M))]

\* (DAMPING_FACTOR * A @ R) + (1 - DAMPING_FACTOR) * E; the first leaves
\* the teleport term out
PowerStepNoTeleport(M, v) ==
    [i \in 1..Len(M) |-> RMul(DAMPING_FACTOR, MatVec(M, v)[i])]
PowerStep(M, v) ==
    [i \in 1..Len(M) |->
        RAdd(RMul(DAMPING_FACTOR, MatVec(M, v)[i]),
             RMul(RSub(<<1, 1>>, DAMPING_FACTOR), Uniform(Len(M))[i]))]

\* np.linalg.norm(R_new - R, 1)
L1Norm(v, w) == RSum([i \in DOMAIN v |-> RAbs(RSub(v[i], w[i]))], Len(v))

RankIdle ==
    /\ rA = <<>>
    /\ eps = <<0, 1>>
    /\ max_iters = 0
    /\ R = <<>>
    /\ R_new = <<>>
    /\ iter = 0
    /\ rpc = "idle"
    /\ ret = <<>>
    /\ stop = "none"
    /\ call = 0
    /\ prev = [ret |-> <<>>, stop |-> "none"]

\* page_rank is entered: n, E and R are set (pagerank.py:25-29)
RankEnter ==
    /\ \E k \in 1..MaxN : rA' \in StochasticMatrices(k)
    /\ eps' \in Epsilons
    /\ max_iters' \in 0..MaxItersBound
    /\ R' = Uniform(Len(rA'))
    /\ R_new' = <<>>
    /\ iter' = 0
    /\ rpc' = "loop"
    /\ ret' = <<>>
    /\ stop' = "none"

RankInit ==
    /\ \E k \in 1..MaxN : rA \in StochasticMatrices(k)
    /\ eps \in Epsilons
    /\ max_iters \in 0..MaxItersBound
    /\ R = Uniform(Len(rA))
    /\ R_new = <<>>
    /\ iter = 0
    /\ rpc = "loop"
    /\ ret = <<>>
    /\ stop = "none"
    /\ call = 1
    /\ prev = [ret |-> <<>>, stop |-> "none"]

\* an iteration that does not pass the convergence test (pagerank.py:31-39)
RankIterate ==
    /\ rpc = "loop"
    /\ iter < max_iters
    /\ LET next == PowerStep(rA, R)
           delta == L1Norm(next, R)
       IN /\ ~RLess(delta, eps)
          /\ R_new' = next
          /\ R' = next
    /\ iter' = iter + 1
    /\ UNCHANGED <<rA, eps, max_iters, rpc, ret, stop, call, prev>>
    /\ UNCHANGED <<crawlVars, matrixVars>>

\* an iteration that passes the test and breaks (pagerank.py:31-37)
RankConverge ==
    /\ rpc = "loop"
    /\ iter < max_iters
    /\ LET next == PowerStep(rA, R)
           delta == L1Norm(next, R)
       IN /\ RLess(delta, eps)
          /\ R_new' = next
    /\ rpc' = "return"
    /\ stop' = "converged"
    /\ UNCHANGED <<rA, eps, max_iters, R, iter, ret, call, prev>>
    /\ UNCHANGED <<crawlVars, matrixVars>>

\* range(max_iters) is exhausted (pagerank.py:31)
RankExhaust ==
    /\ rpc = "loop"
    /\ iter = max_iters
    /\ rpc' = "return"
    /\ stop' = "exhausted"
    /\ UNCHANGED <<rA, eps, max_iters, R, R_new, iter, ret, call, prev>>
    /\ UNCHANGED <<crawlVars, matrixVars>>

\* return R (pagerank.py:41)
RankReturn ==
    /\ rpc = "return"
    /\ ret' = R
    /\ rpc' = "returned"
    /\ UNCHANGED <<rA, eps, max_iters, R, R_new, iter, stop, call, prev>>
    /\ UNCHANGED <<crawlVars, matrixVars>>

\* the caller keeps what it was given and calls page_rank once more, as
\* main does (pagerank.py:139, 146)
RankCallAgain ==
    /\ rpc = "returned"
    /\ call = 1
    /\ prev' = [ret |-> ret, stop |-> stop]
    /\ call' = 2
    /\ RankEnter
    /\ UNCHANGED <<crawlVars, matrixVars>>

\* --------------------------------------------------------- specifications
CrawlIdle ==
    /\ seed_url = 0
    /\ max_pages = 0
    /\ max_depth = 0
    /\ random_seed = 0
    /\ visited = {}
    /\ links = <<>>
    /\ rng = 0
    /\ queue = <<>>
    /\ pc = "idle"
    /\ order = <<>>
    /\ failed = {}
    /\ depthOf = <<>>
    /\ web = <<>>
    /\ run = 0
    /\ first = [order |-> <<>>, visited |-> {}, links |-> <<>>]

Init == CrawlInit /\ MatrixIdle /\ RankIdle

Next ==
    \/ CrawlBegin
    \/ LoopSkip
    \/ LoopVisit
    \/ LoopExit
    \/ ConstructSecond

Spec == Init /\ [][Next]_vars

\* The interpreter keeps running the loop: a step that can be taken is taken.
FairSpec == Spec /\ WF_vars(Next)

MatrixNext == BuildPage \/ BuildReturn

MatrixSpecInit == CrawlIdle /\ MatrixInit /\ RankIdle

MatrixSpec == MatrixSpecInit /\ [][MatrixNext]_vars

RankNext == RankIterate \/ RankConverge \/ RankExhaust \/ RankReturn

RankSpecInit == CrawlIdle /\ MatrixIdle /\ RankInit

RankSpec == RankSpecInit /\ [][RankNext]_vars

RankTwiceNext == RankNext \/ RankCallAgain

RankTwiceSpec == RankSpecInit /\ [][RankTwiceNext]_vars

\* ----------------------------------------------------------------- claims
IsPrefix(s, t) == Len(s) <= Len(t) /\ \A i \in DOMAIN s : s[i] = t[i]
NoDup(s) == \A i, j \in DOMAIN s : i # j => s[i] # s[j]

\* C3: in every state of a crawl the number of visited pages is at most
\* max_pages and every visited url was dequeued with depth <= max_depth; with
\* max_depth = 0 and max_pages >= 1 the finished crawl visited the seed only.
CrawlWithinBudget ==
    /\ Cardinality(visited) <= max_pages
    /\ \A u \in visited : u \in DOMAIN depthOf /\ depthOf[u] <= max_depth
    /\ (pc = "done" /\ max_depth = 0 /\ max_pages >= 1) => visited = {seed_url}

\* A finished crawl with max_depth = 0 whose seed links to other pages.
CrawlWithinBudgetWitness ==
    /\ pc = "done" /\ max_depth = 0 /\ max_pages >= 2
    /\ seed_url \in DOMAIN links
    /\ links[seed_url] \ {seed_url} # {}
    /\ visited = {seed_url}

\* C4: the second crawler, built with the same arguments and run against the
\* same web, visits the same urls in the same order as the first and ends
\* with the same visited set and the same links map, whatever order the link
\* sets are iterated in.
CrawlDeterminism ==
    run = 2 =>
        /\ IsPrefix(order, first.order)
        /\ pc = "done" =>
              /\ order = first.order
              /\ visited = first.visited
              /\ links = first.links

\* Both crawls done, three pages visited, the seed linking to two others.
CrawlDeterminismWitness ==
    /\ run = 2 /\ pc = "done"
    /\ Len(order) >= 3
    /\ Cardinality(links[seed_url] \ {seed_url}) >= 2

\* C8: when a fetch fails inside get_links the crawl does not stop: the page
\* is visited and counted, its recorded link set is empty, nothing is
\* enqueued for it, and the loop goes on with the rest of the queue.
FailureContained ==
    [][run' = run =>
        /\ pc' # "crashed"
        /\ \A u \in failed' :
              u \in visited' /\ u \in DOMAIN links' /\ links'[u] = {}
        /\ failed' # failed =>
              /\ pc' = "loop"
              /\ Cardinality(visited') = Cardinality(visited) + 1
              /\ queue' = Tail(queue)]_vars

\* A page was processed right after a page whose fetch failed.
FailureContainedWitness ==
    \E i \in 1..(Len(order) - 1) :
        /\ order[i] \in failed
        /\ links[order[i]] = {}
        /\ order[i + 1] \notin failed

\* C9: the crawl loop, once entered, is left after finitely many iterations.
CrawlTerminates == (pc = "loop") ~> (pc = "done")

\* A finished crawl over a two-page cycle that left one url queued twice.
CrawlTerminatesWitness ==
    /\ pc = "done"
    /\ \E u, v \in visited :
          u # v /\ v \in links[u] /\ u \in links[v]
    /\ \E i, j \in DOMAIN queue : i # j /\ queue[i][1] = queue[j][1]

\* C10: within one crawl run no url is processed twice, visited never loses
\* a member, and a recorded link set never changes once written.
ProcessedOnce ==
    [][run' = run =>
        /\ visited \subseteq visited'
        /\ \A u \in DOMAIN links : u \in DOMAIN links' /\ links'[u] = links[u]
        /\ NoDup(order')
        /\ order' # order => order'[Len(order')] \notin visited]_vars

\* The loop is about to dequeue a url that is visited already and within
\* the depth and page budgets.
ProcessedOnceWitness ==
    /\ pc = "loop" /\ LoopCond
    /\ queue[1][1] \in visited
    /\ queue[1][2] <= max_depth

ColumnSum(s) == RSum([t \in 1..n |-> A[t][s]], n)

\* C1: every column of the matrix build_adjacency_matrix returns sums to
\* exactly 1, and so does every column written so far while it is built.
ColumnsSumToOne ==
    /\ mpc = "build" =>
          \A i \in 1..(page_i - 1) : ColumnSum(url_to_index(pages[i].url)) = <<1, 1>>
    /\ mpc = "returned" => \A s \in 1..n : ColumnSum(s) = <<1, 1>>

\* A returned matrix for a record in which one page links to itself, to a
\* never-visited url and to a visited page, and another page is dangling
\* though it has links.
ColumnsSumToOneWitness ==
    /\ mpc = "returned"
    /\ \E i \in 1..n :
          /\ pages[i].url \in Range(pages[i].outgoing_links)
          /\ Range(pages[i].outgoing_links) \ visited_urls # {}
          /\ Len(QualifyingLinks(pages[i])) >= 1
    /\ \E j \in 1..n :
          pages[j].outgoing_links # <<>> /\ QualifyingLinks(pages[j]) = <<>>

RefOut(s) == (Range(pages[s].outgoing_links) \cap visited_urls) \ {pages[s].url}

RefEntry(t, s) ==
    IF RefOut(s) # {}
    THEN IF pages[t].url \in RefOut(s) THEN Rat(1, Cardinality(RefOut(s)))
         ELSE <<0, 1>>
    ELSE Rat(1, n)

\* C2: the returned matrix equals the reference normaliser: column s holds
\* 1/|out(s)| on the rows of out(s) and 0 elsewhere when out(s), the visited
\* links of s other than s, is non-empty, and 1/N on every row otherwise.
MatchesReference ==
    mpc = "returned" => \A s, t \in 1..n : A[t][s] = RefEntry(t, s)

\* A returned three-page matrix with a page that links only to itself and a
\* page that links to itself and to the two other pages.
MatchesReferenceWitness ==
    /\ mpc = "returned" /\ n = 3
    /\ \E i \in 1..n : pages[i].outgoing_links = <<pages[i].url>>
    /\ \E j \in 1..n :
          Cardinality(RefOut(j)) = 2 /\ pages[j].url \in Range(pages[j].outgoing_links)

IsDistribution(v) ==
    /\ \A i \in DOMAIN v : v[i][1] >= 0
    /\ RSum(v, Len(v)) = <<1, 1>>

\* C5: every iterate page_rank computes, and the vector it returns, has
\* non-negative entries that sum to exactly 1.
RankStaysDistribution ==
    /\ rpc # "idle" => IsDistribution(R)
    /\ R_new # <<>> => IsDistribution(R_new)
    /\ rpc = "returned" => IsDistribution(ret)

\* A returned vector that is not uniform, after two or more iterations.
RankStaysDistributionWitness ==
    /\ rpc = "returned"
    /\ iter >= 2
    /\ ret # Uniform(rn)

\* C6: the result of page_rank tells whether the loop ended by convergence
\* or by exhausting max_iters: two calls that return the same result ended
\* the same way.
StopReasonObservable ==
    (call = 2 /\ rpc = "returned" /\ ret = prev.ret) => stop = prev.stop

\* C7: when the convergence test passes, page_rank returns R_new, the iterate
\* of that iteration.
ReturnsNewIterate ==
    (rpc = "returned" /\ stop = "converged") => ret = R_new

====
